---- MODULE Spec2Model ----
(***************************************************************************)
(* The Ralph Wiggum loop: the persisted loop record                        *)
(* (.opencode/ralph-loop.state.json), the external driver (ralph.ts and    *)
(* the older copy of the CLI script kept in the repository) and the        *)
(* in-host driver (the OpenCode plugin ralph-wiggum.ts).                   *)
(*                                                                         *)
(* The two drivers are separate operating-system processes that share the  *)
(* record on disk.  Inside one process the JavaScript code between two     *)
(* awaits runs without interruption by the same process, but the other     *)
(* process (and a shell removing the file) can act between any two file    *)
(* system calls.  Every action below is therefore one file-system call     *)
(* together with the synchronous code around it.                           *)
(***************************************************************************)
EXTENDS Integers, Sequences, FiniteSets, TLC

\* ---------------------------------------------------------------- bounds
\* no iteration numbered above IterCap is started (an unlimited loop never ends)
IterCap == 3
\* number of loop records created within one behaviour (values of startedAt)
MaxStarts == 2
\* longest text handed to the completion matcher, in symbols
MaxTextLen == 4
\* longest completion marker, in characters
MaxMarkerLen == 2

\* ------------------------------------------------------------------ text
\* A text is a sequence of symbols.  The tag delimiters and the placeholder
\* sentinel sentence are single symbols; the rest are characters.
OPEN == "<promise>"
CLOSE == "</promise>"
\* the opening tag written in capitals
OPENUP == "<PROMISE>"
WS == " "
SENTINEL == "ralph-wiggum is not yet ready for use. This is a placeholder package."

\* String.prototype.toLowerCase on one symbol (the "i" flag of the RegExp)
Lower(ch) ==
  CASE ch = "C" -> "c"
    [] ch = "D" -> "d"
    [] ch = OPENUP -> OPEN
    [] OTHER -> ch

\* the characters escapeRegex puts a backslash in front of
RegexSpecial == {".", "*", "+", "?", "^", "$", "{", "}", "(", ")", "|", "[", "]", "\\"}

\* no character escaped: the marker read as a pattern
escapeRegexNone(str) == str

RECURSIVE escapeRegex(_)
escapeRegex(str) ==
  IF str = <<>> THEN <<>>
  ELSE (IF Head(str) \in RegexSpecial THEN <<"\\", Head(str)>> ELSE <<Head(str)>>)
       \o escapeRegex(Tail(str))

\* The pattern source read by the RegExp constructor: a backslash makes the
\* next symbol a literal, a bare "." matches any one symbol.
RECURSIVE PatternAtoms(_)
PatternAtoms(src) ==
  IF src = <<>> THEN <<>>
  ELSE IF Head(src) = "\\" /\ Len(src) >= 2
       THEN <<[any |-> FALSE, ch |-> src[2]]>> \o PatternAtoms(Tail(Tail(src)))
       ELSE <<[any |-> (Head(src) = "."), ch |-> Head(src)]>> \o PatternAtoms(Tail(src))

AtomMatches(atom, ch) ==
  \/ atom.any /\ ch \notin {OPEN, CLOSE, OPENUP}
  \/ ~atom.any /\ Lower(atom.ch) = Lower(ch)

\* text[from .. from + Len(atoms) - 1] matches the atoms one by one
AtomsMatchAt(atoms, text, from) ==
  /\ from + Len(atoms) - 1 <= Len(text)
  /\ \A k \in 1..Len(atoms) : AtomMatches(atoms[k], text[from + k - 1])

\* /<promise>\s*ESCAPED\s*<\/promise>/i tested against output
PromiseRegexTest(atoms, output) ==
  \E i \in 1..Len(output) : \E j \in (i + 1)..Len(output) : \E e \in j..Len(output) :
    /\ Lower(output[i]) = OPEN
    /\ \A k \in (i + 1)..(j - 1) : output[k] = WS
    /\ AtomsMatchAt(atoms, output, j)
    /\ e >= j + Len(atoms)
    /\ \A k \in (j + Len(atoms))..(e - 1) : output[k] = WS
    /\ Lower(output[e]) = CLOSE

checkCompletion(output, promise) ==
  PromiseRegexTest(PatternAtoms(escapeRegex(promise)), output)

\* the plugin's copies of the two functions
RECURSIVE pluginEscapeRegex(_)
pluginEscapeRegex(str) ==
  IF str = <<>> THEN <<>>
  ELSE (IF Head(str) \in RegexSpecial THEN <<"\\", Head(str)>> ELSE <<Head(str)>>)
       \o pluginEscapeRegex(Tail(str))

pluginCheckCompletion(output, promise) ==
  LET escaped == pluginEscapeRegex(promise)
  IN PromiseRegexTest(PatternAtoms(escaped), output)

detectPlaceholderPluginError(output) ==
  \E i \in 1..Len(output) : output[i] = SENTINEL

\* the template text between two interpolations is one symbol each
LF == "\n"

\* String.prototype.trim: white space at both ends is dropped
RECURSIVE TrimStart(_)
TrimStart(text) ==
  IF text # <<>> /\ Head(text) \in {LF, WS} THEN TrimStart(Tail(text)) ELSE text

RECURSIVE TrimEnd(_)
TrimEnd(text) ==
  IF text # <<>> /\ text[Len(text)] \in {LF, WS}
  THEN TrimEnd(SubSeq(text, 1, Len(text) - 1))
  ELSE text

Trim(text) == TrimEnd(TrimStart(text))

\* ${state.maxIterations > 0 ? ` / ${state.maxIterations}` : " (unlimited)"}
IterationLimitText(state) ==
  IF state.maxIterations > 0 THEN <<" / ", ToString(state.maxIterations)>>
  ELSE <<" (unlimited)">>

\* the marker quoted without the tags around it
buildPromptBareMarker(state) ==
  Trim(<<LF, "# Ralph Wiggum Loop - Iteration ", ToString(state.iteration), LF,
         "## Your Task", LF, state.prompt, LF,
         "## Instructions ... 4. When the task is GENUINELY COMPLETE, output:", LF, WS>>
       \o state.completionPromise
       \o <<LF, "## Critical Rules", LF, "- ONLY output ">>
       \o state.completionPromise
       \o <<" when the task is truly done ...", LF,
            "## Current Iteration: ", ToString(state.iteration)>>
       \o IterationLimitText(state)
       \o <<LF, "Now, work on the task. Good luck!", LF>>)

\* ralph.ts buildPrompt: the template literal, trimmed
buildPrompt(state) ==
  Trim(<<LF, "# Ralph Wiggum Loop - Iteration ", ToString(state.iteration), LF,
         "## Your Task", LF, state.prompt, LF,
         "## Instructions ... 4. When the task is GENUINELY COMPLETE, output:", LF, WS,
         OPEN>>
       \o state.completionPromise
       \o <<CLOSE, LF, "## Critical Rules", LF, "- ONLY output ", OPEN>>
       \o state.completionPromise
       \o <<CLOSE, " when the task is truly done ...", LF,
            "## Current Iteration: ", ToString(state.iteration)>>
       \o IterationLimitText(state)
       \o <<LF, "Now, work on the task. Good luck!", LF>>)

\* the plugin's buildIterationPrompt: its own template literal, not trimmed
buildIterationPrompt(state) ==
  <<"# Ralph Wiggum Loop - Iteration ", ToString(state.iteration), LF,
    "## Your Task", LF, state.prompt, LF,
    "## Instructions ... 4. When the task is GENUINELY COMPLETE, output:", LF, WS,
    OPEN>>
  \o state.completionPromise
  \o <<CLOSE, LF, "## Critical Rules", LF, "- ONLY output ", OPEN>>
  \o state.completionPromise
  \o <<CLOSE, " when the task is truly done ...", LF,
       "## Current Iteration: ", ToString(state.iteration)>>
  \o IterationLimitText(state)
  \o <<LF, "Now, continue working on the task.">>

\* ------------------------------------------------------------ the record
\* The file is absent ({}) or holds one text: the JSON text of a state object
\* (its members, as a function from property names to values), or a text that
\* JSON.parse rejects.
Absent == {}

NoOutput == <<>>

RalphState(iteration, maxIterations, completionPromise, prompt, startedAt, lastOutput) ==
  [active |-> TRUE, iteration |-> iteration, maxIterations |-> maxIterations,
   completionPromise |-> completionPromise, prompt |-> prompt,
   startedAt |-> startedAt, lastOutput |-> lastOutput]

\* the properties of the state objects the drivers build
StateKeys ==
  {"active", "iteration", "maxIterations", "completionPromise", "prompt", "startedAt", "lastOutput"}

\* the stored assistant text never written out
JSONstringifyDropsOutput(state) ==
  [k \in DOMAIN state \ {"lastOutput"} |-> state[k]]

\* JSON.stringify(state, null, 2): one member for every property whose value
\* is not undefined (lastOutput is undefined until a matching message is stored)
JSONstringify(state) ==
  [k \in {j \in DOMAIN state : ~(j = "lastOutput" /\ state[j] = NoOutput)} |-> state[k]]

\* the object JSON.parse builds from a text JSON.stringify wrote: a property
\* without a member reads as undefined
JSONparse(text) ==
  [k \in StateKeys |-> IF k \in DOMAIN text THEN text[k] ELSE NoOutput]

\* a text JSON.parse throws on: the empty or cut-off content of a file whose
\* write has not been finished
Unparsable == [unparsable |-> TRUE]

\* an unparsable file taken for the record of a running loop
loadStateUnguarded(f) ==
  IF f = {} THEN {}
  ELSE IF (CHOOSE t \in f : TRUE) = Unparsable
       THEN {RalphState(1, 0, <<"c">>, "p1", 0, NoOutput)}
       ELSE {JSONparse(CHOOSE t \in f : TRUE)}

\* loadState: null ({}) when the file does not exist or JSON.parse throws
loadState(f) ==
  IF f = {} THEN {}
  ELSE IF (CHOOSE t \in f : TRUE) = Unparsable THEN {}
       ELSE {JSONparse(CHOOSE t \in f : TRUE)}

\* existingState?.active, state && state.active
IsActive(loaded) == loaded # {} /\ (CHOOSE r \in loaded : TRUE).active

Rec(loaded) == CHOOSE r \in loaded : TRUE

\* saveState: writeFileSync of the serialised state
saveState(state) == {JSONstringify(state)}

\* the unlink left out: the file stays as it is
clearStateKeeps(f) == f

\* clearState: unlinkSync when existsSync, nothing otherwise
clearState(f) == IF f # {} THEN {} ELSE f

\* the limit compared with >= : the loop stops one iteration early
OverMaxInclusive(state) == state.maxIterations > 0 /\ state.iteration >= state.maxIterations

\* maxIterations > 0 && state.iteration > maxIterations
OverMax(state) == state.maxIterations > 0 /\ state.iteration > state.maxIterations


\* ---------------------------------------------------------------- inputs
\* the largest limit whose stop (at iteration MaxN + 1) lies within IterCap
MaxN == IterCap - 1

\* The arguments a loop is started with (prompt, --max-iterations,
\* --completion-promise): a limited loop, and an unlimited loop with another
\* prompt and another marker.
Tasks ==
  { [prompt |-> "p1", maxIterations |-> MaxN, completionPromise |-> <<"c">>],
    [prompt |-> "p2", maxIterations |-> 0, completionPromise |-> <<"d">>] }

\* the same, and a loop started with a negative limit: parseInt("-1") is a
\* number for the script, and -1 is a number for the tool's argument schema
StartInputs ==
  Tasks \cup { [prompt |-> "p2", maxIterations |-> -1, completionPromise |-> <<"d">>] }

\* what one run of the agent hands back to the external driver
PlainText == <<"x">>
TagC == <<OPEN, "c", CLOSE>>
TagSpacedD == <<"x", OPEN, WS, "D", WS, CLOSE>>
AgentResult(out, err, code) == [out |-> out, err |-> err, code |-> code]
AgentResults ==
  { AgentResult(PlainText, <<>>, 0), AgentResult(PlainText, <<>>, 1),
    AgentResult(PlainText, <<"x">>, 2),
    AgentResult(TagC, <<>>, 0), AgentResult(TagSpacedD, <<"x">>, 0),
    AgentResult(TagC, <<>>, 1), AgentResult(TagSpacedD, <<>>, 2),
    AgentResult(PlainText, TagC, 0), AgentResult(PlainText, TagSpacedD, 0),
    AgentResult(PlainText, <<SENTINEL, OPEN, "c", CLOSE>>, 0), AgentResult(<<"x", SENTINEL>>, <<>>, 2),
    AgentResult(<<SENTINEL, OPEN, "c", CLOSE>>, <<>>, 0),
    AgentResult(TagSpacedD, <<"x", SENTINEL>>, 0) }

\* no function is called on its own while the drivers run
NoProbe == [op |-> "none"]

\* all sequences over S of length at most n
SeqsUpTo(S, n) == UNION {[1..k -> S] : k \in 0..n}

\* the symbols of the texts and the characters of the markers the matcher is
\* tried on: the tags, white space, a letter in both cases and the regex
\* special "."
TextAlphabet == {OPEN, OPENUP, CLOSE, WS, "c", "."}
MarkerAlphabet == {"C", "."}
Texts == SeqsUpTo(TextAlphabet, MaxTextLen)
Markers == SeqsUpTo(MarkerAlphabet, MaxMarkerLen) \ {<<>>}

\* the state objects the builders and the store functions are tried on
ProbeStates ==
  { RalphState(i, m, cp, p, st, lo) :
      i \in 1..IterCap, m \in {0, MaxN}, cp \in Markers, p \in {"p1", "p2"},
      st \in 1..MaxStarts, lo \in {NoOutput, TagC} }

\* what the state file holds when clearState is tried
ProbeFiles == {Absent, {Unparsable}} \cup {saveState(s) : s \in ProbeStates}

\* the two copies of the CLI script in the repository
Variants == {"ralph", "legacy"}

VARIABLES
  file,        \* .opencode/ralph-loop.state.json: Absent or {record}
  clock,       \* number of records created so far (next startedAt is clock + 1)
  last,        \* history: what the last step did
  cpc,         \* external driver: "off", "check", "init", "top", "running", "exited"
  cvariant,    \* external driver: which copy of the script runs
  cstate,      \* external driver: its in-memory state object ({} before it is built)
  cexit,       \* external driver: process exit code, -1 while it has not exited
  coutcome,    \* external driver: how it ended
  invoked,     \* history: iteration numbers the agent was spawned for, this run
  cplain,      \* history: no agent run of this run completed, failed or threw so far
  child,       \* the agent process spawned by the external driver: "none" or "running"
  isProcessing,\* in-host driver: the re-entrancy flag
  hpc,         \* in-host driver: the handler that is between two file-system calls
  hstate,      \* in-host driver: the state object of that handler
  submitted,   \* in-host driver: iteration number of the prompt whose submission is awaited, 0 if none
  probe        \* the call of one function on its own: its arguments and what it returned

cvars == <<cpc, cvariant, cstate, cexit, coutcome, invoked, cplain, child>>
hvars == <<isProcessing, hpc, hstate, submitted>>
vars == <<file, clock, last, cvars, hvars, probe>>

Init ==
  /\ file = Absent
  /\ clock = 0
  /\ last = "Init"
  /\ cpc = "off"
  /\ cvariant = "ralph"
  /\ cstate = {}
  /\ cexit = -1
  /\ coutcome = "none"
  /\ invoked = <<>>
  /\ cplain = TRUE
  /\ child = "none"
  /\ isProcessing = FALSE
  /\ hpc = "none"
  /\ hstate = {}
  /\ submitted = 0
  /\ probe = NoProbe

\* ------------------------------------------------------- external driver
\* process.exit(code) / falling off the end of runRalphLoop: the process and
\* its memory are gone, its exit code stays
Exit(code, outcome) ==
  /\ cpc' = "exited"
  /\ cexit' = code
  /\ coutcome' = outcome
  /\ cvariant' = "ralph"
  /\ cstate' = {}
  /\ invoked' = <<>>
  /\ cplain' = TRUE

\* `ralph "<prompt>" [options]`: argument parsing, then runRalphLoop is called
Launch(variant, task) ==
  /\ UNCHANGED probe
  /\ cpc \in {"off", "exited"}
  /\ child = "none"
  /\ clock < MaxStarts
  /\ cvariant' = variant
  /\ cstate' = {RalphState(1, task.maxIterations, task.completionPromise, task.prompt, 0, NoOutput)}
  /\ cpc' = IF variant = "ralph" THEN "check" ELSE "init"
  /\ cexit' = -1
  /\ coutcome' = "none"
  /\ invoked' = <<>>
  /\ cplain' = TRUE
  /\ last' = "Launch"
  /\ UNCHANGED <<file, clock, child, hvars>>

\* ralph.ts: const existingState = loadState(); if (existingState?.active) exit(1)
CheckActive ==
  /\ UNCHANGED probe
  /\ cpc = "check"
  /\ IF IsActive(loadState(file))
     THEN /\ Exit(1, "AlreadyActive")
          /\ last' = "CliAlreadyActive"
     ELSE /\ cpc' = "init"
          /\ last' = "CliCheckPassed"
          /\ UNCHANGED <<cexit, coutcome, cvariant, cstate, invoked, cplain>>
  /\ UNCHANGED <<file, clock, child, hvars>>

\* const state = {active: true, iteration: 1, ...}; saveState(state);
\* the SIGINT handler is installed in the same synchronous block
InitState ==
  /\ UNCHANGED probe
  /\ cpc = "init"
  /\ clock' = clock + 1
  /\ cstate' = {[Rec(cstate) EXCEPT !.startedAt = clock + 1]}
  /\ file' = saveState(Rec(cstate'))
  /\ cpc' = "top"
  /\ last' = "CliInit"
  /\ UNCHANGED <<cvariant, cexit, coutcome, invoked, cplain, child, hvars>>

\* top of while (true): the max-iterations check
MaxReached ==
  /\ UNCHANGED probe
  /\ cpc = "top"
  /\ OverMax(Rec(cstate))
  /\ file' = clearState(file)
  /\ Exit(0, "MaxIterationsReached")
  /\ last' = "CliMaxReached"
  /\ UNCHANGED <<clock, child, hvars>>

\* buildPrompt(state); Bun.spawn(["opencode", "run", fullPrompt])
Spawn ==
  /\ UNCHANGED probe
  /\ cpc = "top"
  /\ ~OverMax(Rec(cstate))
  /\ Rec(cstate).iteration <= IterCap
  /\ invoked' = Append(invoked, Rec(cstate).iteration)
  /\ cpc' = "running"
  /\ child' = "running"
  /\ last' = "CliSpawn"
  /\ UNCHANGED <<file, clock, cvariant, cstate, cexit, coutcome, cplain, hvars>>

\* catch (error): state.iteration++; saveState(state); then the 2 s delay
CatchError(label) ==
  /\ cstate' = {[Rec(cstate) EXCEPT !.iteration = @ + 1]}
  /\ file' = saveState(Rec(cstate'))
  /\ cpc' = "top"
  /\ cplain' = FALSE
  /\ child' = "none"
  /\ last' = label
  /\ UNCHANGED <<clock, cvariant, cexit, coutcome, hvars>>

\* Bun.spawn throws (opencode not found): no agent ran for this iteration
SpawnThrows ==
  /\ UNCHANGED probe
  /\ cpc = "top"
  /\ ~OverMax(Rec(cstate))
  /\ Rec(cstate).iteration <= IterCap
  /\ CatchError("CliSpawnThrows")
  /\ UNCHANGED invoked

\* reading the child's output rejects while the driver awaits it
AgentThrows ==
  /\ UNCHANGED probe
  /\ cpc = "running"
  /\ CatchError("CliAgentThrows")
  /\ UNCHANGED invoked

\* the completion tag looked for in stdout and stderr taken together
AgentVerdictCombined(variant, res, promise) ==
  IF variant = "ralph" /\ (detectPlaceholderPluginError(res.err) \/ detectPlaceholderPluginError(res.out))
  THEN "placeholder"
  ELSE IF variant = "ralph" /\ res.code # 0 THEN "failed"
  ELSE IF checkCompletion(res.out \o res.err, promise) THEN "completed"
  ELSE "continue"

\* the completion tag looked for in stderr instead of stdout
AgentVerdictStderr(variant, res, promise) ==
  IF variant = "ralph" /\ (detectPlaceholderPluginError(res.err) \/ detectPlaceholderPluginError(res.out))
  THEN "placeholder"
  ELSE IF variant = "ralph" /\ res.code # 0 THEN "failed"
  ELSE IF checkCompletion(res.err, promise) THEN "completed"
  ELSE "continue"

\* The checks after the agent has returned, in the order of the script:
\* ralph.ts looks for the placeholder sentinel, then the exit code, then the
\* completion tag in stdout; the older copy looks for the completion tag only.
AgentVerdict(variant, res, promise) ==
  IF variant = "ralph" /\ (detectPlaceholderPluginError(res.err) \/ detectPlaceholderPluginError(res.out))
  THEN "placeholder"
  ELSE IF variant = "ralph" /\ res.code # 0 THEN "failed"
  ELSE IF checkCompletion(res.out, promise) THEN "completed"
  ELSE "continue"

\* the await on the child resolves; everything up to the 1 s delay
\* (auto-commit, state.iteration++, saveState) when the loop goes on
AgentReturns(res) ==
  /\ UNCHANGED probe
  /\ cpc = "running"
  /\ LET v == AgentVerdict(cvariant, res, Rec(cstate).completionPromise) IN
     CASE v = "placeholder" ->
            /\ file' = clearState(file)
            /\ Exit(1, "AgentFailed")
            /\ last' = "CliPlaceholder"
       [] v = "failed" ->
            /\ file' = clearState(file)
            /\ Exit(res.code, "AgentFailed")
            /\ last' = "CliAgentFailed"
       [] v = "completed" ->
            /\ file' = clearState(file)
            /\ Exit(0, "Completed")
            /\ last' = "CliCompleted"
       [] OTHER ->
            /\ cstate' = {[Rec(cstate) EXCEPT !.iteration = @ + 1]}
            /\ file' = saveState(Rec(cstate'))
            /\ cpc' = "top"
            /\ cplain' = (cplain /\ res.code = 0)
            /\ last' = IF res.code = 0 THEN "CliAdvance" ELSE "CliAdvanceAfterFailure"
            /\ UNCHANGED <<cexit, coutcome, cvariant, invoked>>
  /\ child' = "none"
  /\ UNCHANGED <<clock, hvars>>

\* process.on("SIGINT") handler.  It runs from `stopping = true` to
\* process.exit(0) without yielding, so no later signal finds `stopping` set.
\* ralph.ts kills currentProc when it is set; the older copy keeps no
\* reference to the child and leaves it running.
Sigint ==
  /\ UNCHANGED probe
  /\ cpc \in {"top", "running"}
  /\ child' = IF cvariant = "ralph" THEN "none" ELSE child
  /\ file' = clearState(file)
  /\ Exit(0, "Cancelled")
  /\ last' = "CliSigint"
  /\ UNCHANGED <<clock, hvars>>

\* an agent process that outlived its driver comes to its end
OrphanEnds ==
  /\ UNCHANGED probe
  /\ cpc = "exited"
  /\ child = "running"
  /\ child' = "none"
  /\ last' = "OrphanEnds"
  /\ UNCHANGED <<file, clock, cpc, cvariant, cstate, cexit, coutcome, invoked, cplain, hvars>>

\* writeFileSync of the initial record has opened the file, which is empty
\* until the text is written: what the other process finds if it reads now
CliSaveOpens ==
  /\ UNCHANGED probe
  /\ cpc = "init"
  /\ file # {Unparsable}
  /\ file' = {Unparsable}
  /\ last' = "CliSaveOpens"
  /\ UNCHANGED <<clock, cvars, hvars>>

\* runRalphLoop().catch: an error that left the loop; clearState(); exit(1)
FatalError(label) ==
  /\ file' = clearState(file)
  /\ Exit(1, "Fatal")
  /\ child' = "none"
  /\ last' = label
  /\ UNCHANGED <<clock, hvars>>

\* saveState(state) of the initial record throws (the file cannot be written)
InitSaveThrows ==
  /\ UNCHANGED probe
  /\ cpc = "init"
  /\ FatalError("CliInitSaveThrows")

\* Bun.spawn throws, and the saveState(state) of the catch block throws too
SpawnThrowsSaveThrows ==
  /\ UNCHANGED probe
  /\ cpc = "top"
  /\ ~OverMax(Rec(cstate))
  /\ Rec(cstate).iteration <= IterCap
  /\ FatalError("CliSpawnThrowsSaveThrows")

\* the await rejects, and the saveState(state) of the catch block throws too
AgentThrowsSaveThrows ==
  /\ UNCHANGED probe
  /\ cpc = "running"
  /\ FatalError("CliAgentThrowsSaveThrows")

\* The agent returned and the loop goes on, but saveState(state) after
\* state.iteration++ throws: the catch block increments again and saves;
\* that second write succeeds (saved) or throws as well.
AdvanceSaveThrows(res, saved) ==
  /\ UNCHANGED probe
  /\ cpc = "running"
  /\ AgentVerdict(cvariant, res, Rec(cstate).completionPromise) = "continue"
  /\ IF saved
     THEN /\ cstate' = {[Rec(cstate) EXCEPT !.iteration = @ + 2]}
          /\ file' = saveState(Rec(cstate'))
          /\ cpc' = "top"
          /\ cplain' = FALSE
          /\ child' = "none"
          /\ last' = "CliAdvanceSaveThrows"
          /\ UNCHANGED <<clock, cvariant, cexit, coutcome, invoked, hvars>>
     ELSE FatalError("CliAdvanceSaveThrowsTwice")

\* every step of the external driver after its launch
CliSteps ==
  \/ CheckActive
  \/ InitState
  \/ MaxReached
  \/ Spawn
  \/ SpawnThrows
  \/ AgentThrows
  \/ \E res \in AgentResults : AgentReturns(res)
  \/ Sigint
  \/ OrphanEnds
  \/ CliSaveOpens
  \/ InitSaveThrows
  \/ SpawnThrowsSaveThrows
  \/ AgentThrowsSaveThrows
  \/ \E res \in AgentResults, saved \in BOOLEAN : AdvanceSaveThrows(res, saved)

CliNext ==
  \/ \E v \in Variants, t \in Tasks : Launch(v, t)
  \/ CliSteps


\* --------------------------------------------------------- in-host driver
\* assistant message contents delivered with message.updated
MessageTexts == {PlainText, TagC, TagSpacedD}
Roles == {"assistant", "user"}

\* the re-entrancy test left out
IdleGuardMissing(processing) == TRUE

\* event.type === "session.idle" && !isProcessing
IdleGuard(processing) == ~processing

\* the stored output never looked at
LastOutputIgnored(state) == FALSE

\* state.lastOutput && checkCompletion(state.lastOutput, state.completionPromise)
LastOutputComplete(state) ==
  state.lastOutput # NoOutput /\ pluginCheckCompletion(state.lastOutput, state.completionPromise)

\* the completion branch left out
IdleDecisionNoComplete(loaded, sessionOk) ==
  IF ~IsActive(loaded) THEN "return"
  ELSE IF OverMax(Rec(loaded)) THEN "max"
  ELSE IF ~sessionOk THEN "nosession"
  ELSE "continue"

\* the max-iterations branch left out
IdleDecisionNoMax(loaded, sessionOk) ==
  IF ~IsActive(loaded) THEN "return"
  ELSE IF LastOutputComplete(Rec(loaded)) THEN "complete"
  ELSE IF ~sessionOk THEN "nosession"
  ELSE "continue"

\* the session check left out
IdleDecisionNoSessionCheck(loaded, sessionOk) ==
  IF ~IsActive(loaded) THEN "return"
  ELSE IF LastOutputComplete(Rec(loaded)) THEN "complete"
  ELSE IF OverMax(Rec(loaded)) THEN "max"
  ELSE "continue"

\* The synchronous head of the idle handler, up to its first write or return:
\* what the handler decides from the state it loaded.
IdleDecision(loaded, sessionOk) ==
  IF ~IsActive(loaded) THEN "return"
  ELSE IF LastOutputComplete(Rec(loaded)) THEN "complete"
  ELSE IF OverMax(Rec(loaded)) THEN "max"
  ELSE IF ~sessionOk THEN "nosession"
  ELSE "continue"

\* event({event}) with event.type === "session.idle"; sessionOk stands for
\* (event.sessionId || state.sessionId) && client?.session?.prompt
SessionIdle(sessionOk) ==
  /\ UNCHANGED probe
  /\ hpc = "none"
  /\ IF ~IdleGuard(isProcessing)
     THEN /\ last' = "IdleSkipped"
          /\ UNCHANGED <<hpc, hstate>>
     ELSE LET d == IdleDecision(loadState(file), sessionOk) IN
          CASE d = "return" -> /\ last' = "IdleNoLoop"
                               /\ UNCHANGED <<hpc, hstate>>
            [] d = "complete" -> /\ last' = "IdleSawComplete"
                                 /\ hpc' = "idle_clear"
                                 /\ hstate' = loadState(file)
            [] d = "max" -> /\ last' = "IdleSawMax"
                            /\ hpc' = "idle_clear"
                            /\ hstate' = loadState(file)
            [] d = "nosession" -> /\ last' = "IdleNoSession"
                                  /\ UNCHANGED <<hpc, hstate>>
            [] OTHER -> /\ Rec(loadState(file)).iteration <= IterCap
                        /\ last' = "IdleLoaded"
                        /\ hpc' = "idle_save"
                        /\ hstate' = loadState(file)
  /\ UNCHANGED <<file, clock, cvars, isProcessing, submitted>>

\* clearState(directory); return  (completion and max-iterations branches)
IdleClear ==
  /\ UNCHANGED probe
  /\ hpc = "idle_clear"
  /\ file' = clearState(file)
  /\ hpc' = "none"
  /\ hstate' = {}
  /\ last' = IF LastOutputComplete(Rec(hstate)) THEN "IdleClearedComplete" ELSE "IdleClearedMax"
  /\ UNCHANGED <<clock, cvars, isProcessing, submitted>>

\* the prompt built for the iteration number found in the record, before the
\* increment
IdleContinueSubmitsOld ==
  /\ UNCHANGED probe
  /\ hpc = "idle_save"
  /\ isProcessing' = TRUE
  /\ LET next == [Rec(hstate) EXCEPT !.iteration = @ + 1] IN
     /\ file' = saveState(next)
     /\ submitted' = Rec(hstate).iteration
  /\ hpc' = "none"
  /\ hstate' = {}
  /\ last' = "IdleSubmitted"
  /\ UNCHANGED <<clock, cvars>>

\* isProcessing = true; state.iteration++; saveState(directory, state);
\* buildIterationPrompt(state); client.session.prompt(...) is called
IdleContinue ==
  /\ UNCHANGED probe
  /\ hpc = "idle_save"
  /\ isProcessing' = TRUE
  /\ LET next == [Rec(hstate) EXCEPT !.iteration = @ + 1] IN
     /\ file' = saveState(next)
     /\ submitted' = next.iteration
  /\ hpc' = "none"
  /\ hstate' = {}
  /\ last' = "IdleSubmitted"
  /\ UNCHANGED <<clock, cvars>>

\* isProcessing = true; state.iteration++; saveState(directory, state) throws:
\* the write stands before the try block, so the handler's promise rejects
\* and neither the submission nor the finally block is reached
IdleSaveThrows ==
  /\ UNCHANGED probe
  /\ hpc = "idle_save"
  /\ isProcessing' = TRUE
  /\ hpc' = "none"
  /\ hstate' = {}
  /\ last' = "IdleSaveThrows"
  /\ UNCHANGED <<file, clock, cvars, submitted>>

\* a failed submission that clears the record
IdleFinallyClears(ok) ==
  /\ UNCHANGED probe
  /\ submitted # 0
  /\ hpc = "none"
  /\ isProcessing' = FALSE
  /\ submitted' = 0
  /\ file' = IF ok THEN file ELSE clearState(file)
  /\ last' = IF ok THEN "IdlePromptDone" ELSE "IdlePromptFailed"
  /\ UNCHANGED <<clock, cvars, hpc, hstate>>

\* the awaited submission resolves or rejects: finally { isProcessing = false }
IdleFinally(ok) ==
  /\ UNCHANGED probe
  /\ submitted # 0
  /\ hpc = "none"
  /\ isProcessing' = FALSE
  /\ submitted' = 0
  /\ last' = IF ok THEN "IdlePromptDone" ELSE "IdlePromptFailed"
  /\ UNCHANGED <<file, clock, cvars, hpc, hstate>>

\* every assistant text stored, matching or not
MessageUpdatedStoresAll(role, text) ==
  /\ UNCHANGED probe
  /\ hpc = "none"
  /\ LET loaded == loadState(file) IN
     IF IsActive(loaded) /\ role = "assistant" /\ text # <<>>
     THEN /\ hpc' = "msg_save"
          /\ hstate' = {[Rec(loaded) EXCEPT !.lastOutput = text]}
          /\ last' = "MsgMatched"
     ELSE /\ last' = "MsgIgnored"
          /\ UNCHANGED <<hpc, hstate>>
  /\ UNCHANGED <<file, clock, cvars, isProcessing, submitted>>

\* event.type === "message.updated": the text is stored only when it matches
MessageUpdated(role, text) ==
  /\ UNCHANGED probe
  /\ hpc = "none"
  /\ LET loaded == loadState(file) IN
     IF IsActive(loaded) /\ role = "assistant" /\ text # <<>>
        /\ pluginCheckCompletion(text, Rec(loaded).completionPromise)
     THEN /\ hpc' = "msg_save"
          /\ hstate' = {[Rec(loaded) EXCEPT !.lastOutput = text]}
          /\ last' = "MsgMatched"
     ELSE /\ last' = "MsgIgnored"
          /\ UNCHANGED <<hpc, hstate>>
  /\ UNCHANGED <<file, clock, cvars, isProcessing, submitted>>

\* saveState(directory, state) of the message.updated handler
MessageSave ==
  /\ UNCHANGED probe
  /\ hpc = "msg_save"
  /\ file' = saveState(Rec(hstate))
  /\ hpc' = "none"
  /\ hstate' = {}
  /\ last' = "MsgSaved"
  /\ UNCHANGED <<clock, cvars, isProcessing, submitted>>

\* saveState(directory, state) of the message.updated handler throws
MessageSaveThrows ==
  /\ UNCHANGED probe
  /\ hpc = "msg_save"
  /\ hpc' = "none"
  /\ hstate' = {}
  /\ last' = "MsgSaveThrows"
  /\ UNCHANGED <<file, clock, cvars, isProcessing, submitted>>

\* a start that numbers the first iteration 0
RalphStartFromZero(task) ==
  /\ UNCHANGED probe
  /\ hpc = "none"
  /\ IF IsActive(loadState(file))
     THEN /\ last' = "StartAlreadyActive"
          /\ UNCHANGED <<hpc, hstate, clock>>
     ELSE /\ clock < MaxStarts
          /\ clock' = clock + 1
          /\ hpc' = "start_save"
          /\ hstate' = {RalphState(0, task.maxIterations, task.completionPromise, task.prompt, clock + 1, NoOutput)}
          /\ last' = "StartChecked"
  /\ UNCHANGED <<file, cvars, isProcessing, submitted>>

\* ralph_start.execute: the check, and the state object it builds
RalphStart(task) ==
  /\ UNCHANGED probe
  /\ hpc = "none"
  /\ IF IsActive(loadState(file))
     THEN /\ last' = "StartAlreadyActive"
          /\ UNCHANGED <<hpc, hstate, clock>>
     ELSE /\ clock < MaxStarts
          /\ clock' = clock + 1
          /\ hpc' = "start_save"
          /\ hstate' = {RalphState(1, task.maxIterations, task.completionPromise, task.prompt, clock + 1, NoOutput)}
          /\ last' = "StartChecked"
  /\ UNCHANGED <<file, cvars, isProcessing, submitted>>

\* ralph_start.execute: saveState(directory, state)
RalphStartSave ==
  /\ UNCHANGED probe
  /\ hpc = "start_save"
  /\ file' = saveState(Rec(hstate))
  /\ hpc' = "none"
  /\ hstate' = {}
  /\ last' = "StartSaved"
  /\ UNCHANGED <<clock, cvars, isProcessing, submitted>>

\* ralph_start.execute: saveState(directory, state) throws, the tool call fails
RalphStartSaveThrows ==
  /\ UNCHANGED probe
  /\ hpc = "start_save"
  /\ hpc' = "none"
  /\ hstate' = {}
  /\ last' = "StartSaveThrows"
  /\ UNCHANGED <<file, clock, cvars, isProcessing, submitted>>

\* writeFileSync of a handler has opened the file, which is empty until the
\* text is written: what the other process finds if it reads now
HostSaveOpens ==
  /\ UNCHANGED probe
  /\ hpc \in {"idle_save", "msg_save", "start_save"}
  /\ file # {Unparsable}
  /\ file' = {Unparsable}
  /\ last' = "HostSaveOpens"
  /\ UNCHANGED <<clock, cvars, hvars>>

\* ralph_status.execute: loadState and the text it returns
RalphStatus ==
  /\ UNCHANGED probe
  /\ hpc = "none"
  /\ last' = IF IsActive(loadState(file)) THEN "StatusActive" ELSE "StatusNone"
  /\ UNCHANGED <<file, clock, cvars, hvars>>

\* ralph_cancel.execute: loadState and the active check
RalphCancel ==
  /\ UNCHANGED probe
  /\ hpc = "none"
  /\ IF IsActive(loadState(file))
     THEN /\ hpc' = "cancel_clear"
          /\ hstate' = loadState(file)
          /\ last' = "CancelLoaded"
     ELSE /\ last' = "CancelNoLoop"
          /\ UNCHANGED <<hpc, hstate>>
  /\ UNCHANGED <<file, clock, cvars, isProcessing, submitted>>

\* ralph_cancel.execute without its clearState
RalphCancelKeeps ==
  /\ UNCHANGED probe
  /\ hpc = "cancel_clear"
  /\ hpc' = "none"
  /\ hstate' = {}
  /\ last' = "CancelCleared"
  /\ UNCHANGED <<file, clock, cvars, isProcessing, submitted>>

\* ralph_cancel.execute: clearState(directory)
RalphCancelClear ==
  /\ UNCHANGED probe
  /\ hpc = "cancel_clear"
  /\ file' = clearState(file)
  /\ hpc' = "none"
  /\ hstate' = {}
  /\ last' = "CancelCleared"
  /\ UNCHANGED <<clock, cvars, isProcessing, submitted>>

\* /cancel-ralph: the shell snippet of the command removes the file
CancelRalphCommand ==
  /\ UNCHANGED probe
  /\ file # Absent
  /\ file' = Absent
  /\ last' = "CommandRemoved"
  /\ UNCHANGED <<clock, cvars, hvars>>

\* every handler and tool of the in-host driver but ralph_start
HostSteps ==
  \/ \E ok \in BOOLEAN : SessionIdle(ok)
  \/ IdleClear
  \/ IdleContinue
  \/ IdleSaveThrows
  \/ \E ok \in BOOLEAN : IdleFinally(ok)
  \/ \E r \in Roles, t \in MessageTexts : MessageUpdated(r, t)
  \/ MessageSave
  \/ MessageSaveThrows
  \/ RalphStartSave
  \/ RalphStartSaveThrows
  \/ RalphStatus
  \/ RalphCancel
  \/ RalphCancelClear
  \/ HostSaveOpens

HostNext ==
  \/ \E t \in Tasks : RalphStart(t)
  \/ HostSteps

Next == CliNext \/ HostNext \/ CancelRalphCommand

\* both drivers on one working directory
Spec == Init /\ [][Next]_vars

\* the external driver, started with any of the inputs, and the shell that
\* removes the file
CliOnlyNext ==
  \/ \E v \in Variants, t \in StartInputs : Launch(v, t)
  \/ CliSteps
  \/ CancelRalphCommand
SpecCli == Init /\ [][CliOnlyNext]_vars

\* the in-host driver, started with any of the inputs, and the shell that
\* removes the file
HostOnlyNext ==
  \/ \E t \in StartInputs : RalphStart(t)
  \/ HostSteps
  \/ CancelRalphCommand
SpecHost == Init /\ [][HostOnlyNext]_vars

\* ------------------------------------------------- the functions on their own
\* No driver runs: one function is called on one input.
DriversOff ==
  /\ clock = 0
  /\ last = "Init"
  /\ cpc = "off"
  /\ cvariant = "ralph"
  /\ cstate = {}
  /\ cexit = -1
  /\ coutcome = "none"
  /\ invoked = <<>>
  /\ cplain = TRUE
  /\ child = "none"
  /\ isProcessing = FALSE
  /\ hpc = "none"
  /\ hstate = {}
  /\ submitted = 0

FunctionsInit ==
  /\ DriversOff
  /\ \/ /\ probe \in {[op |-> "match", text |-> t, marker |-> m] : t \in Texts, m \in Markers}
        /\ file = Absent
     \/ /\ probe \in {[op |-> "render", state |-> s] : s \in ProbeStates}
        /\ file \in {Absent, saveState(probe.state)}
     \/ /\ probe \in {[op |-> "roundtrip", state |-> s] : s \in ProbeStates}
        /\ file \in {Absent, {Unparsable}}
     \/ /\ probe = [op |-> "clear", calls |-> 0, after |-> <<>>]
        /\ file \in ProbeFiles

\* checkCompletion(text, marker) in both drivers
CallCheckCompletion ==
  /\ probe.op = "match"
  /\ probe' = [op |-> "matched", text |-> probe.text, marker |-> probe.marker,
                cli |-> checkCompletion(probe.text, probe.marker),
                plugin |-> pluginCheckCompletion(probe.text, probe.marker)]
  /\ last' = "CallCheckCompletion"
  /\ UNCHANGED <<file, clock, cvars, hvars>>

\* buildPrompt(state) and buildIterationPrompt(state)
CallBuildPrompt ==
  /\ probe.op = "render"
  /\ probe' = [op |-> "rendered", state |-> probe.state,
                cli |-> buildPrompt(probe.state),
                plugin |-> buildIterationPrompt(probe.state)]
  /\ last' = "CallBuildPrompt"
  /\ UNCHANGED <<file, clock, cvars, hvars>>

\* saveState(state)
CallSaveState ==
  /\ probe.op = "roundtrip"
  /\ file' = saveState(probe.state)
  /\ probe' = [op |-> "saved", state |-> probe.state]
  /\ last' = "CallSaveState"
  /\ UNCHANGED <<clock, cvars, hvars>>

\* loadState() right after it
CallLoadState ==
  /\ probe.op = "saved"
  /\ probe' = [op |-> "loaded", state |-> probe.state, loaded |-> loadState(file)]
  /\ last' = "CallLoadState"
  /\ UNCHANGED <<file, clock, cvars, hvars>>

\* clearState(), once and once more
CallClearState ==
  /\ probe.op = "clear"
  /\ probe.calls < 2
  /\ file' = clearState(file)
  /\ probe' = [op |-> "clear", calls |-> probe.calls + 1,
                after |-> Append(probe.after, file')]
  /\ last' = "CallClearState"
  /\ UNCHANGED <<clock, cvars, hvars>>

FunctionsNext ==
  \/ CallCheckCompletion
  \/ CallBuildPrompt
  \/ CallSaveState
  \/ CallLoadState
  \/ CallClearState

SpecFunctions == FunctionsInit /\ [][FunctionsNext]_vars


\* ------------------------------------------------------------ properties
CliRunning == cpc \in {"top", "running"}

\* a step in which a driver writes the record of a loop it starts
StartWrite == (cpc = "init" /\ cpc' = "top") \/ (hpc = "start_save" /\ hpc' = "none")

\* a step in which a start request is answered (refused or carried out)
StartAnswer ==
  \/ cpc = "check" /\ cpc' # "check"
  \/ StartWrite
  \/ hpc = "none" /\ last' \in {"StartAlreadyActive", "StartChecked"}

StartRefused == last' \in {"CliAlreadyActive", "StartAlreadyActive"}

\* C1: a start made while the record on disk is active is refused with
\* AlreadyActive and leaves the record exactly as it was.
C1_StartWhileActiveRefused ==
  [][(IsActive(loadState(file)) /\ StartAnswer) => (StartRefused /\ file' = file)]_vars

\* C2: with maxIterations = N > 0 the external driver never spawns the agent
\* for an iteration above N; as long as no agent run completed, failed or
\* threw, the iterations spawned so far are 1, 2, ... in order; and when it
\* then stops at the max-iterations check it has spawned exactly 1..N, the
\* record is removed and the exit code is 0.
C2_ExactlyMaxIterations ==
  [][CliRunning =>
       LET st == Rec(cstate)
           N == st.maxIterations
       IN /\ N > 0 => \A i \in 1..Len(invoked) : invoked[i] <= N
          /\ cplain => invoked = [i \in 1..Len(invoked) |-> i]
          /\ (cplain /\ N > 0 /\ cpc' = "exited" /\ coutcome' = "MaxIterationsReached")
               => /\ invoked = [i \in 1..N |-> i]
                  /\ file' = Absent
                  /\ cexit' = 0
          /\ (cplain /\ N > 0 /\ Len(invoked) = N /\ cpc = "top")
               => (cpc' = "exited" \/ UNCHANGED cvars)]_vars

C2_Witness ==
  /\ last = "CliMaxReached"
  /\ coutcome = "MaxIterationsReached"
  /\ cexit = 0
  /\ file = Absent

NoPlaceholder(res) ==
  ~detectPlaceholderPluginError(res.out) /\ ~detectPlaceholderPluginError(res.err)

CompletedStop ==
  /\ cpc' = "exited"
  /\ coutcome' = "Completed"
  /\ cexit' = 0
  /\ file' = Absent

\* C3 as claimed: whenever the agent exits with code 0 and its stdout holds
\* the completion tag, the external driver stops as Completed with the record
\* removed and exit code 0 (and spawns nothing more).
C3_CompletionStops ==
  [][\A res \in AgentResults :
       (/\ cpc = "running"
        /\ res.code = 0
        /\ checkCompletion(res.out, Rec(cstate).completionPromise)
        /\ AgentReturns(res)) => CompletedStop]_vars

\* C3 amended: the same, for agent output (stdout and stderr) that does not
\* hold the placeholder-plugin sentinel.
C3_CompletionStopsUnlessPlaceholder ==
  [][\A res \in AgentResults :
       (/\ cpc = "running"
        /\ res.code = 0
        /\ checkCompletion(res.out, Rec(cstate).completionPromise)
        /\ NoPlaceholder(res)
        /\ AgentReturns(res)) => CompletedStop]_vars

C3_Witness ==
  /\ last = "CliCompleted"
  /\ coutcome = "Completed"
  /\ cexit = 0
  /\ file = Absent

\* C4: a non-zero exit code c of the agent stops the external driver at once
\* as AgentFailed with the record removed and exit code c; the iteration is
\* not incremented and nothing is written afterwards.
C4_FailureStops ==
  [][\A res \in AgentResults :
       (/\ cpc = "running"
        /\ res.code # 0
        /\ AgentReturns(res))
       => (/\ cpc' = "exited"
           /\ coutcome' = "AgentFailed"
           /\ cexit' = res.code
           /\ file' = Absent)]_vars

\* C5: an idle event delivered while the processing flag is set changes
\* nothing: no increment, no write of the record, no second submission; and
\* the handler never reaches its increment with the flag already set.
C5_IdleNotReentrant ==
  [][/\ (isProcessing /\ \E ok \in BOOLEAN : SessionIdle(ok))
          => UNCHANGED <<file, hvars>>
     /\ hpc \in {"idle_save", "idle_clear"} => ~isProcessing]_vars

C5_Witness ==
  /\ last = "IdleSkipped"
  /\ isProcessing
  /\ submitted # 0
  /\ IsActive(loadState(file)) /\ Rec(loadState(file)).iteration = submitted


HostActsOnCliRecord ==
  /\ hpc \in {"idle_save", "idle_clear"}
  /\ Rec(hstate).startedAt = Rec(cstate).startedAt

OtherLoopOnDisk ==
  /\ IsActive(loadState(file))
  /\ Rec(loadState(file)).startedAt # Rec(cstate).startedAt

\* C6: while the external driver runs its loop, the in-host driver neither
\* continues or clears the record that driver created, nor is a loop started
\* by someone else active on disk: the two never own a loop at the same time.
C6_DriversNeverConcurrent ==
  CliRunning => (~HostActsOnCliRecord /\ ~OtherLoopOnDisk)

CancelJustRemoved == last \in {"CommandRemoved", "CancelCleared"} /\ file = Absent

\* the steps in which the external driver spawns the agent or writes the record
\* for the next iteration
CliDispatchLabels ==
  {"CliSpawn", "CliAdvance", "CliAdvanceAfterFailure", "CliSpawnThrows", "CliAgentThrows"}

\* C7: once /cancel-ralph or ralph_cancel has removed the record of a running
\* external loop, the external driver spawns no further iteration and does not
\* write the record again.
C7_CancelStopsExternalLoop ==
  [][(CancelJustRemoved /\ CliRunning) => last' \notin CliDispatchLabels]_vars

\* C8: between two successive states in which the record is active its
\* iteration does not decrease.
C8_IterationMonotone ==
  [][(IsActive(loadState(file)) /\ IsActive(loadState(file')))
       => Rec(loadState(file')).iteration >= Rec(loadState(file)).iteration]_vars

\* a step in which a driver writes back an incremented iteration or a lastOutput
UpdateWrite ==
  last' \in {"CliAdvance", "CliAdvanceAfterFailure", "CliSpawnThrows", "CliAgentThrows",
             "IdleSubmitted", "MsgSaved"}

\* C9: while the record exists, the writes the drivers make for iteration
\* increments and lastOutput updates leave its prompt and completionPromise
\* as they were.
C9_PromptAndPromiseFixed ==
  [][(loadState(file) # {} /\ loadState(file') # {} /\ UpdateWrite)
       => /\ Rec(loadState(file')).prompt = Rec(loadState(file)).prompt
          /\ Rec(loadState(file')).completionPromise = Rec(loadState(file)).completionPromise]_vars

\* C10: an idle handler that had loaded the record when cancel removed it
\* does nothing more: it does not write the record again and submits no prompt.
C10_IdleInFlightNoOpAfterCancel ==
  [][(CancelJustRemoved /\ hpc = "idle_save")
       => (hpc' = "none" => (file' = Absent /\ submitted' = 0))]_vars

\* C11: an interrupt signal handled by the external driver once the initial
\* record is written stops it gracefully: the agent process in flight (if any)
\* is terminated, the record is removed and the exit code is 0.
C11_SigintStopsGracefully ==
  [][(CliRunning /\ last' = "CliSigint")
       => (/\ cpc' = "exited"
           /\ coutcome' = "Cancelled"
           /\ cexit' = 0
           /\ file' = Absent
           /\ child' = "none")]_vars

\* C12: agent output (stdout or stderr) holding the placeholder sentinel stops
\* the external driver as AgentFailed with the record removed and a non-zero
\* exit code, whatever the exit code of the agent and whether or not stdout
\* holds the completion tag; no incremented record is written.
C12_PlaceholderStops ==
  [][\A res \in AgentResults :
       (/\ cpc = "running"
        /\ ~NoPlaceholder(res)
        /\ AgentReturns(res))
       => (/\ cpc' = "exited"
           /\ coutcome' = "AgentFailed"
           /\ cexit' # 0
           /\ file' = Absent)]_vars

\* the steps in which an error raised inside one iteration is caught
IterationError ==
  last' \in {"CliSpawnThrows", "CliAgentThrows",
             "CliSpawnThrowsSaveThrows", "CliAgentThrowsSaveThrows"}

\* C13: an error raised during one iteration (the spawn throws, the await on
\* the agent rejects) does not end the external driver and does not remove the
\* record: the iteration is incremented by one, the record is written with
\* active = true and that iteration, and the loop goes on.
C13_TransientErrorContinues ==
  [][(CliRunning /\ IterationError)
       => (/\ cpc' = "top"
           /\ Rec(cstate').iteration = Rec(cstate).iteration + 1
           /\ file' = saveState(Rec(cstate'))
           /\ IsActive(loadState(file')))]_vars

\* how a driver that wrote its record can end
TerminalOutcomes == {"Completed", "MaxIterationsReached", "AgentFailed", "Cancelled", "Fatal"}

IdleHandled == hpc = "none" /\ ~isProcessing /\ \E ok \in BOOLEAN : SessionIdle(ok)

\* the idle handler leaves its clearing branch
IdleClearDone == hpc = "idle_clear" /\ hpc' # "idle_clear"

\* C15: an idle event handled while not processing, with an active record
\* whose lastOutput matches its completionPromise, makes the in-host driver
\* remove the record and do nothing else: no incremented record is written
\* and no prompt is submitted.
C15_IdleCompleteClears ==
  [][/\ (IdleHandled /\ IsActive(loadState(file)) /\ LastOutputComplete(Rec(loadState(file))))
          => (hpc' = "idle_clear" /\ UNCHANGED <<file, isProcessing, submitted>>)
     /\ (IdleClearDone /\ LastOutputComplete(Rec(hstate)))
          => (file' = Absent /\ UNCHANGED <<isProcessing, submitted>>)]_vars

C15_Witness ==
  /\ last = "IdleClearedComplete"
  /\ file = Absent
  /\ ~isProcessing
  /\ submitted = 0

\* C16: an idle event handled while not processing, with an active record
\* whose lastOutput does not match and whose iteration is above a positive
\* maxIterations, makes the in-host driver remove the record and submit no
\* prompt.
C16_IdleOverMaxClears ==
  [][/\ (IdleHandled /\ IsActive(loadState(file)) /\ ~LastOutputComplete(Rec(loadState(file))) /\ OverMax(Rec(loadState(file))))
          => (hpc' = "idle_clear" /\ UNCHANGED <<file, isProcessing, submitted>>)
     /\ (IdleClearDone /\ ~LastOutputComplete(Rec(hstate)))
          => (file' = Absent /\ UNCHANGED <<isProcessing, submitted>>)]_vars

C16_Witness ==
  /\ last = "IdleClearedMax"
  /\ file = Absent
  /\ ~isProcessing
  /\ submitted = 0

\* the record on disk holds a lastOutput that matches its completionPromise
StoredOutputMatches ==
  /\ IsActive(loadState(file))
  /\ Rec(loadState(file)).lastOutput # NoOutput
  /\ checkCompletion(Rec(loadState(file)).lastOutput, Rec(loadState(file)).completionPromise)

\* what the message.updated handler does with a matching assistant text: it
\* takes the record it loaded, replaces lastOutput by the matching text and
\* writes that record; it writes nothing else and removes nothing
MessageOnlyStores ==
  /\ last' = "MsgMatched"
       => /\ file' = file
          /\ hstate' = {[Rec(loadState(file)) EXCEPT !.lastOutput = Rec(hstate').lastOutput]}
          /\ checkCompletion(Rec(hstate').lastOutput, Rec(loadState(file)).completionPromise)
  /\ last' = "MsgSaved"
       => /\ file' = saveState(Rec(hstate))
          /\ StoredOutputMatches'

\* C17 as claimed: a message.updated event with matching assistant text only
\* stores the text in lastOutput and writes the record, never removes it; and
\* the next idle event delivered after it removes the record.
C17_MessageStoresNextIdleClears ==
  [][/\ MessageOnlyStores
     /\ (hpc = "none" /\ StoredOutputMatches /\ \E ok \in BOOLEAN : SessionIdle(ok))
          => hpc' = "idle_clear"
     /\ (IdleClearDone /\ LastOutputComplete(Rec(hstate))) => file' = Absent]_vars

\* C17 amended: the same, for the next idle event that is delivered while the
\* processing flag is unset; an idle event delivered while it is set is
\* ignored and the record stays.
C17_MessageStoresNextHandledIdleClears ==
  [][/\ MessageOnlyStores
     /\ (hpc = "none" /\ StoredOutputMatches /\ \E ok \in BOOLEAN : SessionIdle(ok))
          => IF isProcessing THEN UNCHANGED <<file, hvars>> ELSE hpc' = "idle_clear"
     /\ (IdleClearDone /\ LastOutputComplete(Rec(hstate))) => file' = Absent]_vars

C17_Witness ==
  /\ last = "IdleSawComplete"
  /\ hpc = "idle_clear"
  /\ StoredOutputMatches
  /\ hstate = loadState(file)

\* C18: an idle event for an active record that is neither complete nor over
\* its limit, delivered without a usable session, changes nothing: the record
\* stays as it is, the processing flag stays unset and no prompt is submitted.
C18_IdleWithoutSessionNoOp ==
  [][(/\ hpc = "none"
      /\ ~isProcessing
      /\ IsActive(loadState(file))
      /\ ~LastOutputComplete(Rec(loadState(file)))
      /\ ~OverMax(Rec(loadState(file)))
      /\ SessionIdle(FALSE))
       => UNCHANGED <<file, hvars>>]_vars

C18_Witness ==
  /\ last = "IdleNoSession"
  /\ hpc = "none"
  /\ IsActive(loadState(file))
  /\ ~isProcessing
  /\ submitted = 0

\* C19: a prompt submission that fails leaves the record as it is: the handler
\* does not remove or rewrite it, so an active record is still active when
\* the handler has returned.
C19_SubmissionFailureKeepsRecord ==
  [][last' = "IdlePromptFailed" => (file' = file /\ hpc' = "none")]_vars

C19_Witness ==
  /\ last = "IdlePromptFailed"
  /\ IsActive(loadState(file))
  /\ Rec(loadState(file)).iteration >= 2
  /\ ~isProcessing

\* C20: the processing flag is set only while a submission is awaited (whose
\* finally block clears it): no continuation attempt ends with the flag set.
C20_FlagNeverStuck == isProcessing => submitted # 0

\* C21: ralph_cancel answers from the record it loads: with an active record
\* it keeps that record's iteration for its reply and then removes the file;
\* without one it reports that no loop is active and changes nothing.
\* ralph_status changes nothing, and says "active" only for an active record.
C21_CancelAndStatus ==
  [][/\ last' = "CancelLoaded"
          => /\ IsActive(loadState(file))
             /\ hstate' = loadState(file)
             /\ file' = file
     /\ last' = "CancelCleared"
          => /\ file' = Absent
             /\ UNCHANGED <<isProcessing, submitted>>
     /\ last' = "CancelNoLoop"
          => /\ ~IsActive(loadState(file))
             /\ UNCHANGED <<file, hvars>>
     /\ last' \in {"StatusActive", "StatusNone"}
          => /\ UNCHANGED <<file, hvars>>
             /\ (last' = "StatusActive") = IsActive(loadState(file))]_vars

C21_Witness ==
  /\ last = "CancelCleared"
  /\ file = Absent
  /\ hpc = "none"

\* a record as a start creates it from the input it was given
FreshRecord(r, task) ==
  /\ r.active
  /\ r.iteration = 1
  /\ r.prompt = task.prompt
  /\ r.completionPromise = task.completionPromise
  /\ r.maxIterations = task.maxIterations
  /\ r.lastOutput = NoOutput

ContainsTaggedMarker(text, marker, IsOpen(_), IsClose(_)) ==
  \E i \in 1..Len(text) : \E j \in (i + 1)..Len(text) : \E e \in (j + Len(marker))..Len(text) :
    /\ IsOpen(text[i])
    /\ \A k \in (i + 1)..(j - 1) : text[k] = WS
    /\ \A k \in 1..Len(marker) : Lower(text[j + k - 1]) = Lower(marker[k])
    /\ \A k \in (j + Len(marker))..(e - 1) : text[k] = WS
    /\ IsClose(text[e])

ExactOpen(ch) == ch = OPEN
ExactClose(ch) == ch = CLOSE
AnyCaseOpen(ch) == Lower(ch) = OPEN
AnyCaseClose(ch) == Lower(ch) = CLOSE

\* C23 as stated: for every text and non-empty marker, checkCompletion is
\* true exactly when the text contains <promise>, optional white space, the
\* marker as literal text in any case, optional white space, </promise>; and
\* the two drivers' matchers agree.
C23_MatchIffTaggedLiteral ==
  probe.op = "matched"
    => /\ probe.cli = ContainsTaggedMarker(probe.text, probe.marker, ExactOpen, ExactClose)
       /\ probe.plugin = probe.cli

\* C23 amended: the same, with the two tags recognised in any case as well
\* (the "i" flag applies to the whole pattern).
C23_MatchIffTaggedLiteralAnyCase ==
  probe.op = "matched"
    => /\ probe.cli = ContainsTaggedMarker(probe.text, probe.marker, AnyCaseOpen, AnyCaseClose)
       /\ probe.plugin = probe.cli

\* a marker with a regex special in it found literally, in the other case
C23_Witness ==
  /\ probe.op = "matched"
  /\ probe.marker = <<"C", ".">>
  /\ probe.text = <<OPEN, "c", ".", CLOSE>>
  /\ probe.cli
  /\ probe.plugin

\* the decimal iteration number stands right after a heading that announces it
ShowsIteration(text, state) ==
  \E k \in 1..(Len(text) - 1) :
    /\ text[k] \in {"# Ralph Wiggum Loop - Iteration ", "## Current Iteration: "}
    /\ text[k + 1] = ToString(state.iteration)

\* the marker stands in the text, unchanged, between the two tags
ShowsTaggedMarker(text, state) ==
  \E k \in 1..Len(text) :
    /\ k + Len(state.completionPromise) + 1 <= Len(text)
    /\ text[k] = OPEN
    /\ SubSeq(text, k + 1, k + Len(state.completionPromise)) = state.completionPromise
    /\ text[k + Len(state.completionPromise) + 1] = CLOSE

\* C24: for every state s, the prompt built by buildPrompt and by
\* buildIterationPrompt names s.iteration and quotes s.completionPromise
\* between the tags, so that the driver's own matcher finds the marker in
\* the prompt; building the prompt leaves s, the file and both drivers as
\* they were.
C24_PromptEmbedsMarkerAndIteration ==
  [][(probe.op = "render" /\ probe'.op = "rendered")
       => /\ ShowsIteration(probe'.cli, probe.state)
          /\ ShowsIteration(probe'.plugin, probe.state)
          /\ ShowsTaggedMarker(probe'.cli, probe.state)
          /\ ShowsTaggedMarker(probe'.plugin, probe.state)
          /\ checkCompletion(probe'.cli, probe.state.completionPromise)
          /\ pluginCheckCompletion(probe'.plugin, probe.state.completionPromise)
          /\ probe'.state = probe.state
          /\ UNCHANGED <<file, clock, cvars, hvars>>]_vars

\* a prompt has been built for a later iteration of a limited loop whose
\* marker has a regex special in it, with a record on disk
C24_Witness ==
  /\ probe.op = "rendered"
  /\ probe.state.iteration = 2
  /\ probe.state.maxIterations > 0
  /\ probe.state.completionPromise = <<".", "C">>
  /\ file = saveState(probe.state)
  /\ Head(probe.cli) = "# Ralph Wiggum Loop - Iteration "

\* C25: loadState called right after saveState(s), nothing else having
\* touched the file, returns a state equal to s in every field, whatever
\* the file held before.
C25_SaveThenLoadReturnsSaved ==
  probe.op = "loaded"
    => /\ probe.loaded # {}
       /\ \A k \in StateKeys : Rec(probe.loaded)[k] = probe.state[k]
       /\ probe.loaded = {probe.state}

\* a state with a stored assistant text has been saved and loaded again
C25_Witness ==
  /\ probe.op = "loaded"
  /\ probe.state.lastOutput = TagC
  /\ probe.state.iteration = IterCap
  /\ probe.loaded = {probe.state}

\* C26: after clearState there is no record, whether the file was absent,
\* held a record or held an unparsable text; a second clearState finds the
\* file absent, does not fail and leaves what the first one left.
C26_ClearIdempotent ==
  (probe.op = "clear" /\ probe.calls >= 1)
    => /\ file = Absent
       /\ \A k \in 1..Len(probe.after) : probe.after[k] = Absent
       /\ probe.calls < 2 => ENABLED CallClearState

\* clearState has run twice
C26_Witness ==
  /\ probe.op = "clear"
  /\ probe.calls = 2
  /\ probe.after = <<Absent, Absent>>
  /\ file = Absent

\* the answers a caller of loadState gives only when it was handed the
\* record of an active loop
ActiveLoopAnswers ==
  {"CliAlreadyActive", "StartAlreadyActive", "CancelLoaded", "StatusActive",
   "IdleSawComplete", "IdleSawMax", "IdleNoSession", "IdleLoaded", "MsgMatched"}

LoadAnswers ==
  ActiveLoopAnswers \cup
    {"CliCheckPassed", "StartChecked", "CancelNoLoop", "StatusNone", "IdleNoLoop", "MsgIgnored"}

\* C28: a loadState that runs while the other driver is inside saveState
\* reads the whole old record or the whole new one: no step that loads the
\* record finds the file opened for writing and not yet written.
C28_LoadNeverSeesTornRecord ==
  [][last' \in LoadAnswers => file # {Unparsable}]_vars

\* C29: every record on disk has iteration >= 1 and maxIterations >= 0,
\* whatever accepted input the loop was started with.
C29_PersistedRanges ==
  loadState(file) # {}
    => /\ Rec(loadState(file)).iteration >= 1
       /\ Rec(loadState(file)).maxIterations >= 0

\* C30: when the agent's exit code c is not 0 and its stdout holds the
\* completion tag, the external driver ends as AgentFailed with exit code c
\* and not as Completed with exit code 0.
C30_FailureBeforeCompletion ==
  [][\A res \in AgentResults :
       (/\ cpc = "running"
        /\ res.code # 0
        /\ checkCompletion(res.out, Rec(cstate).completionPromise)
        /\ AgentReturns(res))
       => (/\ coutcome' = "AgentFailed"
           /\ cexit' = res.code
           /\ ~(coutcome' = "Completed" /\ cexit' = 0))]_vars

\* the agent ended with exit code 0 and the completion tag on stderr only
TagOnStderrOnly(res) ==
  /\ res.code = 0
  /\ ~checkCompletion(res.out, Rec(cstate).completionPromise)
  /\ checkCompletion(res.err, Rec(cstate).completionPromise)

\* the external driver goes on to the next iteration: no terminal outcome,
\* the iteration one higher and written to the record
ContinuesToNext ==
  /\ cpc' = "top"
  /\ coutcome' = "none"
  /\ Rec(cstate').iteration = Rec(cstate).iteration + 1
  /\ file' = saveState(Rec(cstate'))

LoopEndings == {"Completed", "MaxIterationsReached", "AgentFailed", "Cancelled"}

\* C32 (what it says of every finite run): with maxIterations = N > 0 the
\* external driver never invokes the agent more than N times, and when its
\* loop ends, after agent runs that returned, failed or raised an error, it
\* ends as Completed, MaxIterationsReached, AgentFailed or Cancelled.
C32_LimitedLoopEndsInTerminalState ==
  [][(CliRunning /\ Rec(cstate).maxIterations > 0)
       => /\ Len(invoked') <= Rec(cstate).maxIterations
          /\ cpc' = "exited" => coutcome' \in LoopEndings]_vars

\* C33: with maxIterations = N > 0 neither driver hands the agent a prompt
\* for an iteration numbered above N: not the external driver when it spawns
\* the agent, not the in-host driver when it submits the prompt.
C33_NoPromptBeyondLimit ==
  [][/\ (last' = "CliSpawn" /\ Rec(cstate).maxIterations > 0)
          => invoked'[Len(invoked')] <= Rec(cstate).maxIterations
     /\ (last' = "IdleSubmitted" /\ Rec(hstate).maxIterations > 0)
          => submitted' <= Rec(hstate).maxIterations]_vars

\* the steps that end one pass of the external driver's loop and begin the next
PassEndings ==
  {"CliAdvance", "CliAdvanceAfterFailure", "CliSpawnThrows", "CliAgentThrows",
   "CliAdvanceSaveThrows"}

\* C34: every pass of the external driver's loop that leads to another pass
\* raises the iteration by exactly 1, on the success path and on the error
\* path, also when the state write after the increment fails, and writes
\* that number to the record; each pass invokes the agent for the number the
\* counter holds, so no iteration number is left out.
C34_IterationStepsByOne ==
  [][/\ last' \in PassEndings
          => /\ Rec(cstate').iteration = Rec(cstate).iteration + 1
             /\ Rec(loadState(file')).iteration = Rec(cstate').iteration
     /\ last' = "CliSpawn"
          => invoked'[Len(invoked')] = Rec(cstate).iteration]_vars

\* the record on disk has a lastOutput
HasStoredOutput(f) == loadState(f) # {} /\ Rec(loadState(f)).lastOutput # NoOutput

\* C35: a lastOutput in the record on disk always matches the record's
\* completionPromise; so an idle event handled while the flag is unset and
\* the record has a lastOutput takes the completion branch, which removes the
\* record and submits no prompt.
C35_StoredOutputAlwaysMatches ==
  [][/\ HasStoredOutput(file')
          => pluginCheckCompletion(Rec(loadState(file')).lastOutput,
                                   Rec(loadState(file')).completionPromise)
     /\ (IdleHandled /\ HasStoredOutput(file))
          => /\ last' = "IdleSawComplete"
             /\ hpc' = "idle_clear"
             /\ UNCHANGED <<file, isProcessing, submitted>>
     /\ last' = "IdleClearedComplete"
          => /\ file' = Absent
             /\ UNCHANGED <<isProcessing, submitted>>]_vars

\* an idle event has found a stored text that matches the marker of its
\* record in the other case and with white space inside the tags
C35_Witness ==
  /\ last = "IdleSawComplete"
  /\ hpc = "idle_clear"
  /\ HasStoredOutput(file)
  /\ Rec(loadState(file)).lastOutput = TagSpacedD
  /\ Rec(loadState(file)).completionPromise = <<"d">>
  /\ submitted = 0

\* C36: the idle handler raises the iteration of the record it loaded by 1
\* and writes the record before it submits the prompt; the prompt is for
\* exactly the iteration number written (when the write fails nothing is
\* submitted); and the end of the submission, failed or not, leaves the file
\* as it is, so the raised iteration stays.
C36_IncrementPersistedBeforeSubmit ==
  [][/\ last' = "IdleSubmitted"
          => /\ file' = saveState([Rec(hstate) EXCEPT !.iteration = @ + 1])
             /\ Rec(loadState(file')).iteration = Rec(hstate).iteration + 1
             /\ submitted' = Rec(loadState(file')).iteration
             /\ ShowsIteration(buildIterationPrompt(Rec(loadState(file'))),
                               [iteration |-> submitted'])
     /\ last' = "IdleSaveThrows" => UNCHANGED <<file, submitted>>
     /\ submitted' # submitted => (last' = "IdleSubmitted" \/ submitted' = 0)
     /\ last' \in {"IdlePromptFailed", "IdlePromptDone"} => file' = file]_vars

\* the submission for iteration 3 has failed and the record is at iteration 3
C36_Witness ==
  /\ last = "IdlePromptFailed"
  /\ ~isProcessing
  /\ loadState(file) # {}
  /\ Rec(loadState(file)).iteration = 3

====
